---- MODULE Spec2Model ----
(***************************************************************************)
(* A model of blocky's block container: src/src/block.rs.                  *)
(*                                                                         *)
(*   - fixed-width integers are kept exact: a u32 is a pair of 16-bit      *)
(*     limbs [hi, lo], a u64 a pair of u32 [hi, lo];                       *)
(*   - files are byte sequences; the 1-based index k of a sequence is the  *)
(*     0-based file offset k - 1;                                          *)
(*   - Block::from_files is a process per builder, one action per I/O      *)
(*     step, so that builders interleave and any I/O step may fail.        *)
(***************************************************************************)
EXTENDS Integers, Sequences, FiniteSets, TLC

VARIABLES
    overflow_checks, \* build profile: TRUE = arithmetic overflow panics (dev), FALSE = wraps (release)
    target,          \* the file at the target path: [exists, bytes]
    bs,              \* the builders: one Block::from_files call each
    rnd,             \* round_up_to under test: [pc, value, base, out]
    cdc,             \* codec under test: [pc, input, enc, dec]
    lay,             \* the offset loop of from_files over members given by size
    rdr              \* a reader of the target: [pc, block, idx, out]

vars == <<overflow_checks, target, bs, rnd, cdc, lay, rdr>>

(***************************************************************************)
(* Fixed-width integers                                                    *)
(***************************************************************************)
W8 == 2 ^ 8
W16 == 2 ^ 16

\* u32 from a natural number; for a wider number this is `as u32` (the low 32 bits)
as_u32(n) == [hi |-> (n \div W16) % W16, lo |-> n % W16]

\* `as usize` / `as u64` of a u32 (only for values the checker's integers hold)
as_usize(u) == u.hi * W16 + u.lo

U32Zero == as_u32(0)

U32Lt(a, b) == a.hi < b.hi \/ (a.hi = b.hi /\ a.lo < b.lo)
U32Le(a, b) == a = b \/ U32Lt(a, b)

\* a + b on u32: the wrapped sum and whether it overflowed
U32Add(a, b) ==
    LET lo == a.lo + b.lo
        hi == a.hi + b.hi + (lo \div W16)
    IN  [val |-> [hi |-> hi % W16, lo |-> lo % W16], overflow |-> hi >= W16]

\* a - b on u32: the wrapped difference and whether it underflowed
U32Sub(a, b) ==
    LET borrow == IF a.lo < b.lo THEN 1 ELSE 0
        lo == a.lo + borrow * W16 - b.lo
        hi == a.hi - b.hi - borrow
    IN  [val |-> [hi |-> (hi + W16) % W16, lo |-> lo], overflow |-> hi < 0]

\* bit i (0 = least significant) of a u32
U32Bit(v, i) ==
    IF i >= 16 THEN (v.hi \div (2 ^ (i - 16))) % 2 ELSE (v.lo \div (2 ^ i)) % 2

\* one step of binary long division: r < b becomes (2 r + bit) % b
U32RemStep(r, bit, b) ==
    LET lo2 == 2 * r.lo + bit
        wide == [hi |-> 2 * r.hi + (lo2 \div W16), lo |-> lo2 % W16]
        borrow == IF wide.lo < b.lo THEN 1 ELSE 0
    IN  IF U32Le(b, wide)
        THEN [hi |-> wide.hi - b.hi - borrow, lo |-> wide.lo + borrow * W16 - b.lo]
        ELSE wide

\* value % base on u32, base > 0: binary long division, most significant bit first
RECURSIVE U32RemFrom(_, _, _, _)
U32RemFrom(v, b, i, r) ==
    IF i < 0 THEN r
    ELSE CHOOSE out \in {U32RemFrom(v, b, i - 1, next) : next \in {U32RemStep(r, U32Bit(v, i), b)}} : TRUE

U32Rem(v, b) == U32RemFrom(v, b, 31, U32Zero)

(***************************************************************************)
(* round_up_to                                                             *)
(***************************************************************************)
Panic == [panic |-> TRUE, val |-> U32Zero]
Value(v) == [panic |-> FALSE, val |-> v]

\* rounds down instead of up
round_down_to(value, base) ==
    IF base = U32Zero THEN Panic
    ELSE Value(U32Sub(value, U32Rem(value, base)).val)

\* `value + base - reminder` is (value + base) - reminder: the sum is formed first
round_up_to(value, base) ==
    IF base = U32Zero THEN Panic
    ELSE LET reminder == U32Rem(value, base)
             sum == U32Add(value, base)
             diff == U32Sub(sum.val, reminder)
         IN  IF reminder = U32Zero THEN Value(value)
             ELSE IF overflow_checks /\ (sum.overflow \/ diff.overflow) THEN Panic
             ELSE Value(diff.val)

(***************************************************************************)
(* Byte strings, digests                                                   *)
(***************************************************************************)
DigestLen == 16

Zeros(n) == [i \in 1 .. n |-> 0]

\* the first n bytes of s, zero-padded to n bytes
Padded(s, n) == [i \in 1 .. n |-> IF i <= Len(s) THEN s[i] ELSE 0]

\* md5::compute (external crate): a 16-byte digest, here the length and the
\* first bytes of the input, which is injective on the inputs of this model
\* as MD5 is taken to be on real inputs
md5(s) == <<Len(s) % W8, (Len(s) \div W8) % W8>> \o Padded(s, DigestLen - 2)

(***************************************************************************)
(* byteorder: little-endian fixed-width fields over a stream               *)
(***************************************************************************)
\* big-endian instead of little-endian
u16_be(n) == <<n \div W8, n % W8>>

u16_le(n) == <<n % W8, n \div W8>>
u32_le(u) == u16_le(u.lo) \o u16_le(u.hi)
u64_le(x) == u32_le(x.lo) \o u32_le(x.hi)

\* a reader: the bytes and the number already consumed
Source(data) == [data |-> data, pos |-> 0]
Readable(src, n) == src.pos + n <= Len(src.data)
Peek(src, k, n) == SubSeq(src.data, src.pos + k + 1, src.pos + k + n)
Skip(src, n) == [src EXCEPT !.pos = @ + n]

le_u16(b) == b[1] + W8 * b[2]
le_u32(b) == [hi |-> le_u16(SubSeq(b, 3, 4)), lo |-> le_u16(SubSeq(b, 1, 2))]
le_u64(b) == [hi |-> le_u32(SubSeq(b, 5, 8)), lo |-> le_u32(SubSeq(b, 1, 4))]

Ok(v) == [ok |-> TRUE, val |-> v]
Err(kind) == [ok |-> FALSE, err |-> kind]

(***************************************************************************)
(* impl SelfSerialize for FileInfo                                         *)
(***************************************************************************)
\* id, size, offset, location_hash
FileInfoSize == 8 + 4 + 4 + DigestLen

FileInfo_encode(fi) ==
    Ok(u64_le(fi.id) \o u32_le(fi.size) \o u32_le(fi.offset) \o fi.location_hash)

\* decoded value and the reader after it
FileInfo_decode(src) ==
    IF ~Readable(src, FileInfoSize) THEN Err("UnexpectedEof")
    ELSE [ok |-> TRUE,
          val |-> [id |-> le_u64(Peek(src, 0, 8)),
                   size |-> le_u32(Peek(src, 8, 4)),
                   offset |-> le_u32(Peek(src, 12, 4)),
                   location_hash |-> Peek(src, 16, DigestLen)],
          src |-> Skip(src, FileInfoSize)]

(***************************************************************************)
(* impl SelfSerialize for BlockHeader                                      *)
(***************************************************************************)
RECURSIVE EncodeEntries(_)
EncodeEntries(infos) ==
    IF infos = <<>> THEN <<>>
    ELSE FileInfo_encode(Head(infos)).val \o EncodeEntries(Tail(infos))

\* u32::try_from(len) cannot fail for a sequence the checker can hold
BlockHeader_encode(h) ==
    Ok(u16_le(h.version) \o u32_le(as_u32(Len(h.file_info))) \o EncodeEntries(h.file_info))

\* for _ in 0..file_info_len { FileInfo::decode(source)? }
RECURSIVE DecodeEntries(_, _, _)
DecodeEntries(src, remaining, acc) ==
    IF remaining = U32Zero THEN [ok |-> TRUE, val |-> acc, src |-> src]
    ELSE LET e == FileInfo_decode(src)
         IN  IF ~e.ok THEN e
             ELSE DecodeEntries(e.src, U32Sub(remaining, as_u32(1)).val, Append(acc, e.val))

BlockHeader_decode(src) ==
    IF ~Readable(src, 2) THEN Err("UnexpectedEof")
    ELSE IF ~Readable(src, 6) THEN Err("UnexpectedEof")
    ELSE LET version == le_u16(Peek(src, 0, 2))
             file_info_len == le_u32(Peek(src, 2, 4))
             es == DecodeEntries(Skip(src, 6), file_info_len, <<>>)
         IN  IF ~es.ok THEN es
             ELSE [ok |-> TRUE,
                   val |-> [version |-> version, file_info |-> es.val],
                   src |-> es.src]

(***************************************************************************)
(* impl SelfSerialize for FileHeader                                       *)
(***************************************************************************)
\* u16::MAX
U16Max == W16 - 1

\* String::from_utf8: every byte is a well-formed lead byte followed by its
\* continuation bytes, or a continuation byte of the lead byte before it
IsCont(b) == b \in 128 .. 191
Utf8Len(b) ==
    IF b < 128 THEN 1
    ELSE IF b \in 194 .. 223 THEN 2
    ELSE IF b \in 224 .. 239 THEN 3
    ELSE IF b \in 240 .. 244 THEN 4
    ELSE 0
Utf8Second(lead, b) ==
    IF lead = 224 THEN b \in 160 .. 191
    ELSE IF lead = 237 THEN b \in 128 .. 159
    ELSE IF lead = 240 THEN b \in 144 .. 191
    ELSE IF lead = 244 THEN b \in 128 .. 143
    ELSE IsCont(b)
IsUtf8(s) ==
    \A i \in 1 .. Len(s) :
        IF IsCont(s[i])
        THEN \E d \in 1 .. 3 :
                /\ i - d >= 1
                /\ ~IsCont(s[i - d])
                /\ Utf8Len(s[i - d]) > d
                /\ \A k \in 1 .. d - 1 : IsCont(s[i - k])
        ELSE /\ Utf8Len(s[i]) > 0
             /\ i + Utf8Len(s[i]) - 1 <= Len(s)
             /\ \A k \in 1 .. Utf8Len(s[i]) - 1 : IsCont(s[i + k])
             /\ Utf8Len(s[i]) > 1 => Utf8Second(s[i], s[i + 1])

\* u16::try_from(self.location.len()) comes first: a failed encode writes nothing
FileHeader_encode(h) ==
    IF Len(h.location) > U16Max THEN Err("Fail name too long")
    ELSE Ok(h.hash \o u16_le(Len(h.location)) \o h.location)

FileHeader_decode(src) ==
    IF ~Readable(src, DigestLen) THEN Err("UnexpectedEof")
    ELSE IF ~Readable(src, DigestLen + 2) THEN Err("UnexpectedEof")
    ELSE LET location_length == le_u16(Peek(src, DigestLen, 2))
             utf8 == Peek(src, DigestLen + 2, location_length)
         IN  IF ~Readable(src, DigestLen + 2 + location_length) THEN Err("UnexpectedEof")
             ELSE IF ~IsUtf8(utf8) THEN Err("Unable to decode file location")
             ELSE [ok |-> TRUE,
                   val |-> [hash |-> Peek(src, 0, DigestLen), location |-> utf8],
                   src |-> Skip(src, DigestLen + 2 + location_length)]

\* SelfSerialize::write_to: the encoded bytes, whose number it returns
write_to(h) == FileHeader_encode(h)

(***************************************************************************)
(* round_up_to applied to inputs around the page size, the sign bit and    *)
(* the top of the 32-bit range                                             *)
(***************************************************************************)
RoundSpan == 2

U32(hi, lo) == [hi |-> hi, lo |-> lo]
U32Top == U32(W16 - 1, W16 - 1)

Near(u) ==
    {U32Add(u, as_u32(d)).val : d \in 0 .. RoundSpan}
        \cup {U32Sub(u, as_u32(d)).val : d \in 0 .. RoundSpan}

RoundValues ==
    UNION {Near(u) : u \in {U32Zero, as_u32(12), as_u32(1024), as_u32(2048), U32(32768, 0)}}
        \cup {U32(W16 - 1, W16 - 1024), U32(W16 - 1, W16 - 1023)}

RoundBases ==
    {U32Zero, as_u32(1), as_u32(2), as_u32(12), as_u32(1024), as_u32(2048),
     U32(32767, W16 - 1), U32(32768, 0), U32Top}

RndIdle == [pc |-> "idle", value |-> U32Zero, base |-> U32Zero, out |-> Panic]

RoundUp ==
    /\ rnd.pc = "ready"
    /\ rnd' = [rnd EXCEPT !.pc = "done", !.out = round_up_to(rnd.value, rnd.base)]
    /\ UNCHANGED <<lay, rdr, overflow_checks, target, bs, cdc>>

(***************************************************************************)
(* The codecs applied to values: encode into a buffer, decode from its     *)
(* start (tests::test_read_write_cycle)                                    *)
(***************************************************************************)
U64(hi, lo) == [hi |-> hi, lo |-> lo]

Digests == {Zeros(DigestLen), md5(<<115, 116, 114, 105, 110, 103>>), [i \in 1 .. DigestLen |-> W8 - i]}

CodecIds == {U64(U32Zero, as_u32(1)), U64(as_u32(1), as_u32(258)), U64(U32Top, U32Top)}
CodecSizes == {U32Zero, as_u32(15), U32Top}
CodecOffsets == {U32Zero, as_u32(1024), U32(1, 2)}

FileInfos ==
    [id : CodecIds, size : CodecSizes, offset : CodecOffsets,
     location_hash : {Zeros(DigestLen), md5(<<47, 97>>)}]

SampleInfo(k) ==
    [id |-> U64(U32Zero, as_u32(k)), size |-> as_u32(15 * k), offset |-> as_u32(1024 * (k - 1)),
     location_hash |-> md5(<<47, 48 + k>>)]

BlockHeaders ==
    [version : {0, 1, 3, 258, U16Max},
     file_info : {<<>>, <<SampleInfo(1)>>, <<SampleInfo(2), SampleInfo(1)>>,
                  <<SampleInfo(1), SampleInfo(2), SampleInfo(3)>>}]

\* "", "/foo/bar", "/é", the longest location that fits the length field, and one byte more
Repeat(b, n) == [i \in 1 .. n |-> b]
Locations ==
    {<<>>, <<47, 102, 111, 111, 47, 98, 97, 114>>, <<47, 195, 169>>,
     Repeat(97, U16Max), Repeat(97, U16Max + 1)}

FileHeaders == [hash : Digests, location : Locations]

\* what follows the encoded bytes in the buffer that is decoded
Trailing == {<<>>, <<0, 0, 0>>, <<255>>}

CdcIdle == [pc |-> "idle", kind |-> "none", input |-> <<>>, enc |-> Err("none"), dec |-> Err("none")]

CdcReady(kind, v) == [CdcIdle EXCEPT !.pc = "ready", !.kind = kind, !.input = v]

EncodeFileInfo ==
    /\ cdc.pc = "ready" /\ cdc.kind = "FileInfo"
    /\ cdc' = [cdc EXCEPT !.pc = "encoded", !.enc = FileInfo_encode(cdc.input)]
    /\ UNCHANGED <<lay, rdr, overflow_checks, target, bs, rnd>>

EncodeBlockHeader ==
    /\ cdc.pc = "ready" /\ cdc.kind = "BlockHeader"
    /\ cdc' = [cdc EXCEPT !.pc = "encoded", !.enc = BlockHeader_encode(cdc.input)]
    /\ UNCHANGED <<lay, rdr, overflow_checks, target, bs, rnd>>

EncodeFileHeader ==
    /\ cdc.pc = "ready" /\ cdc.kind = "FileHeader"
    /\ cdc' = [cdc EXCEPT !.pc = "encoded", !.enc = FileHeader_encode(cdc.input)]
    /\ UNCHANGED <<lay, rdr, overflow_checks, target, bs, rnd>>

Decoded(r) == IF r.ok THEN Ok(r.val) ELSE Err(r.err)

DecodeFileInfo ==
    /\ cdc.pc = "encoded" /\ cdc.kind = "FileInfo" /\ cdc.enc.ok
    /\ \E t \in Trailing :
        cdc' = [cdc EXCEPT !.pc = "decoded",
                           !.dec = Decoded(FileInfo_decode(Source(cdc.enc.val \o t)))]
    /\ UNCHANGED <<lay, rdr, overflow_checks, target, bs, rnd>>

DecodeBlockHeader ==
    /\ cdc.pc = "encoded" /\ cdc.kind = "BlockHeader" /\ cdc.enc.ok
    /\ \E t \in Trailing :
        cdc' = [cdc EXCEPT !.pc = "decoded",
                           !.dec = Decoded(BlockHeader_decode(Source(cdc.enc.val \o t)))]
    /\ UNCHANGED <<lay, rdr, overflow_checks, target, bs, rnd>>

DecodeFileHeader ==
    /\ cdc.pc = "encoded" /\ cdc.kind = "FileHeader" /\ cdc.enc.ok
    /\ \E t \in Trailing :
        cdc' = [cdc EXCEPT !.pc = "decoded",
                           !.dec = Decoded(FileHeader_decode(Source(cdc.enc.val \o t)))]
    /\ UNCHANGED <<lay, rdr, overflow_checks, target, bs, rnd>>

(***************************************************************************)
(* The file system: the source files and the target path                   *)
(***************************************************************************)
BigLen == 2055

\* "Hello", "World", an empty file and one that spans several pages
SourceFiles ==
    [a |-> <<72, 101, 108, 108, 111>>,
     b |-> <<87, 111, 114, 108, 100>>,
     e |-> <<>>,
     big |-> [i \in 1 .. BigLen |-> 1 + (i % 251)]]

\* Path::is_file
is_file(path) == path \in DOMAIN SourceFiles

\* Path::metadata()?.len()
metadata_len(path) == Len(SourceFiles[path])

Request(id, path, location) == [id |-> U64(U32Zero, as_u32(id)), path |-> path, location |-> location]

\* the request lists the builders are called with; locations are "/a", "/b", ...
ReqLists ==
    << <<>>,
       <<Request(1, "a", <<47, 97>>)>>,
       <<Request(5, "a", <<47, 97>>), Request(2, "b", <<47, 98>>)>>,
       <<Request(1, "a", <<47, 97>>), Request(2, "missing", <<47, 109>>), Request(3, "gone", <<47, 103>>)>>,
       <<Request(7, "e", <<47, 101>>), Request(3, "b", <<47, 98>>)>>,
       <<Request(1, "big", <<47, 98, 105, 103>>), Request(2, "e", <<47, 195, 169>>)>>,
       <<Request(9, "a", Repeat(97, U16Max + 1))>> >>

\* the lists of the builders that run beside the first one
ContenderLists == {3}

NoFile == [exists |-> FALSE, bytes |-> <<>>]
ForeignFile == [exists |-> TRUE, bytes |-> <<1, 2, 3>>]

Max(x, y) == IF x >= y THEN x ELSE y

\* write(2) of data at the file offset pos; a gap past the end reads as zeros
WriteAt(bytes, pos, data) ==
    [i \in 1 .. Max(Len(bytes), pos + Len(data)) |->
        IF i > pos /\ i <= pos + Len(data) THEN data[i - pos]
        ELSE IF i <= Len(bytes) THEN bytes[i]
        ELSE 0]

\* File::set_len: truncates, or extends with zeros; the file offset stays
SetLen(bytes, n) == Padded(bytes, n)

(***************************************************************************)
(* std::io::BufWriter over the block file: w = [buf, pos], pos being the   *)
(* offset of the underlying file descriptor                                *)
(***************************************************************************)
BufCapacity == 8192

\* BufWriter::flush_buf
FlushBuf(w, bytes) ==
    [w |-> [buf |-> <<>>, pos |-> w.pos + Len(w.buf)],
     bytes |-> IF w.buf = <<>> THEN bytes ELSE WriteAt(bytes, w.pos, w.buf)]

\* BufWriter::write_all
BufWrite(w, bytes, data) ==
    LET f == IF Len(w.buf) + Len(data) > BufCapacity THEN FlushBuf(w, bytes)
             ELSE [w |-> w, bytes |-> bytes]
    IN  IF Len(data) >= BufCapacity
        THEN [w |-> [f.w EXCEPT !.pos = @ + Len(data)], bytes |-> WriteAt(f.bytes, f.w.pos, data)]
        ELSE [w |-> [f.w EXCEPT !.buf = @ \o data], bytes |-> f.bytes]

(***************************************************************************)
(* Block::open, Block::file_at, Block::len, Block::iter                    *)
(***************************************************************************)
\* the mapping is the file itself: a Block is its decoded header
Block_open(file) ==
    IF ~file.exists THEN Err("NotFound")
    ELSE LET header == BlockHeader_decode(Source(file.bytes))
         IN  IF ~header.ok THEN Err("BlockCorrupted")
             ELSE IF file.bytes = <<>> THEN Err("Io")
             ELSE Ok([header |-> header.val])

Block_len(block) == Len(block.header.file_info)
Block_iter(block) == block.header.file_info

\* idx counts from 0; data is the mapped file
Block_file_at(block, data, idx) ==
    LET info == block.header.file_info[idx + 1]
    IN  IF U32Lt(as_u32(Len(data)), info.offset) THEN [kind |-> "panic"]
        ELSE LET offset == as_usize(info.offset)
                 header == FileHeader_decode(Source(SubSeq(data, offset + 1, Len(data))))
             IN  IF ~header.ok THEN [kind |-> "HeaderCorrupted"]
                 ELSE LET start == offset + header.src.pos
                      IN  IF U32Lt(as_u32(Len(data) - start), info.size) THEN [kind |-> "panic"]
                          ELSE [kind |-> "ok",
                                header |-> header.val,
                                content |-> SubSeq(data, start + 1, start + as_usize(info.size))]

(***************************************************************************)
(* Block::from_files: one process per builder                              *)
(***************************************************************************)
NumBuilders == 2
Builders == 1 .. NumBuilders

BLOCK_PAGE_SIZE == 1024

\* size_of::<Block>() and size_of::<FileInfo>() on a 64-bit target
SizeOfBlock == 48
SizeOfFileInfo == 32

NewBuilder(req) ==
    [pc |-> "start", req |-> req, idx |-> 1,
     next_file_offset |-> U32Zero, file_infos |-> <<>>,
     writer |-> [buf |-> <<>>, pos |-> 0],
     memory_buffer |-> <<>>, bytes_written |-> 0,
     err |-> "", err_path |-> "", block |-> Err("none"),
     pre_exists |-> FALSE, created |-> FALSE]

files_of(b) == ReqLists[bs[b].req]
file_of(b) == files_of(b)[bs[b].idx]

\* the last missing source instead of the first
last_missing_file(files) ==
    LET missing == {i \in 1 .. Len(files) : ~is_file(files[i].path)}
    IN  IF missing = {} THEN 0 ELSE CHOOSE i \in missing : \A j \in missing : i >= j

\* files.iter().find(|f| !f.is_file()): the index of the first missing source, 0 if none
first_missing_file(files) ==
    LET missing == {i \in 1 .. Len(files) : ~is_file(files[i].path)}
    IN  IF missing = {} THEN 0 ELSE CHOOSE i \in missing : \A j \in missing : i <= j

\* create(true).truncate(true): an existing file is emptied and taken over
create_truncate(file) == Ok([exists |-> TRUE, bytes |-> <<>>])

\* create(true): an existing file is opened as it is
create_or_open(file) == Ok([exists |-> TRUE, bytes |-> file.bytes])

\* OpenOptions::new().write(true).create_new(true).open(path)
create_new(file) ==
    IF file.exists THEN Err("BlockFileAlreadyExists")
    ELSE Ok([exists |-> TRUE, bytes |-> <<>>])

\* FileInfo::new_at_offset
new_at_offset(file, offset) ==
    [id |-> file.id,
     size |-> as_u32(metadata_len(file.path)),
     offset |-> offset,
     location_hash |-> md5(file.location)]

\* the entry put in front
vec_push_front(file_infos, file_info) == <<file_info>> \o file_infos

\* file_infos.push(file_info)
vec_push(file_infos, file_info) == Append(file_infos, file_info)

\* header_size: (size_of::<Block>() + files.len() * size_of::<FileInfo>()) as u32
header_size(files) == as_u32(SizeOfBlock + Len(files) * SizeOfFileInfo)

\* the copy appended after the buffer's initial byte
read_appended(path) == <<0>> \o SourceFiles[path]

\* io::copy(&mut reader, &mut memory_buffer) into Cursor::new(vec![0u8])
read_to_memory(path) == WriteAt(<<0>>, 0, SourceFiles[path])

\* an error return or a panic drops the BufWriter, which tries to flush
Dropped(b, flushed) ==
    IF flushed THEN FlushBuf(bs[b].writer, target.bytes).bytes ELSE target.bytes

\* the call is over: its locals are gone, its outcome stays
Returned(self, pc, err) ==
    [NewBuilder(self.req) EXCEPT !.pc = pc, !.err = err,
                                 !.pre_exists = self.pre_exists, !.created = self.created]

Fail(b, kind, flushed) ==
    /\ bs' = [bs EXCEPT ![b] = Returned(@, "failed", kind)]
    /\ target' = [target EXCEPT !.bytes = Dropped(b, flushed)]

Panicked(b) ==
    /\ bs' = [bs EXCEPT ![b] = Returned(@, "panicked", "")]
    /\ target' = [target EXCEPT !.bytes = Dropped(b, TRUE)]

Validate(b) ==
    /\ bs[b].pc = "start"
    /\ LET files == files_of(b)
           missing == first_missing_file(files)
       IN  bs' = [bs EXCEPT ![b] =
                IF files = <<>>
                THEN [@ EXCEPT !.pc = "failed", !.err = "NoFilesInBlock", !.pre_exists = target.exists]
                ELSE IF missing # 0
                THEN [@ EXCEPT !.pc = "failed", !.err = "NotFound",
                               !.err_path = files[missing].path, !.pre_exists = target.exists]
                ELSE [@ EXCEPT !.pc = "create", !.pre_exists = target.exists]]
    /\ UNCHANGED <<lay, rdr, overflow_checks, target, rnd, cdc>>

Create(b) ==
    /\ bs[b].pc = "create"
    /\ LET opened == create_new(target)
           first == round_up_to(header_size(files_of(b)), as_u32(BLOCK_PAGE_SIZE))
       IN  IF ~opened.ok
           THEN /\ bs' = [bs EXCEPT ![b].pc = "failed", ![b].err = opened.err]
                /\ target' = target
           ELSE /\ target' = opened.val
                /\ bs' = [bs EXCEPT ![b] =
                        IF first.panic THEN [@ EXCEPT !.pc = "panicked", !.created = TRUE]
                        ELSE [@ EXCEPT !.pc = "set_len", !.created = TRUE,
                                       !.next_file_offset = first.val]]
    /\ UNCHANGED <<lay, rdr, overflow_checks, rnd, cdc>>

\* block_file.set_len(next_file_offset as u64)
SetLength(b) ==
    /\ bs[b].pc = "set_len"
    /\ target' = [target EXCEPT !.bytes = SetLen(@, as_usize(bs[b].next_file_offset))]
    /\ bs' = [bs EXCEPT ![b].pc = "seek_end"]
    /\ UNCHANGED <<lay, rdr, overflow_checks, rnd, cdc>>

\* writer.seek(SeekFrom::End(0)): flushes, then moves the file offset to the end
SeekEnd(b) ==
    /\ bs[b].pc = "seek_end"
    /\ LET f == FlushBuf(bs[b].writer, target.bytes)
       IN  /\ target' = [target EXCEPT !.bytes = f.bytes]
           /\ bs' = [bs EXCEPT ![b].pc = "read",
                               ![b].writer = [f.w EXCEPT !.pos = Len(f.bytes)]]
    /\ UNCHANGED <<lay, rdr, overflow_checks, rnd, cdc>>

ReadSource(b) ==
    /\ bs[b].pc = "read"
    /\ bs' = [bs EXCEPT ![b].pc = "write_header",
                        ![b].memory_buffer = read_to_memory(file_of(b).path)]
    /\ UNCHANGED <<lay, rdr, overflow_checks, target, rnd, cdc>>

WriteFileHeader(b) ==
    /\ bs[b].pc = "write_header"
    /\ LET file_header == [hash |-> md5(bs[b].memory_buffer), location |-> file_of(b).location]
           written == write_to(file_header)
       IN  IF ~written.ok THEN Fail(b, written.err, TRUE)
           ELSE LET w == BufWrite(bs[b].writer, target.bytes, written.val)
                IN  /\ target' = [target EXCEPT !.bytes = w.bytes]
                    /\ bs' = [bs EXCEPT ![b].pc = "write_content", ![b].writer = w.w,
                                        ![b].bytes_written = Len(written.val)]
    /\ UNCHANGED <<lay, rdr, overflow_checks, rnd, cdc>>

WriteContent(b) ==
    /\ bs[b].pc = "write_content"
    /\ LET w == BufWrite(bs[b].writer, target.bytes, bs[b].memory_buffer)
       IN  /\ target' = [target EXCEPT !.bytes = w.bytes]
           /\ bs' = [bs EXCEPT ![b].pc = "file_info", ![b].writer = w.w,
                               ![b].bytes_written = @ + Len(bs[b].memory_buffer)]
    /\ UNCHANGED <<lay, rdr, overflow_checks, rnd, cdc>>

PushFileInfo(b) ==
    /\ bs[b].pc = "file_info"
    /\ LET file_info == new_at_offset(file_of(b), bs[b].next_file_offset)
           sum == U32Add(bs[b].next_file_offset, as_u32(bs[b].bytes_written))
           next == round_up_to(sum.val, as_u32(BLOCK_PAGE_SIZE))
       IN  IF (overflow_checks /\ sum.overflow) \/ next.panic THEN Panicked(b)
           ELSE /\ bs' = [bs EXCEPT ![b].pc = IF bs[b].idx < Len(files_of(b))
                                              THEN "set_len" ELSE "seek_start",
                                    ![b].idx = @ + 1,
                                    ![b].next_file_offset = next.val,
                                    ![b].memory_buffer = <<>>,
                                    ![b].bytes_written = 0,
                                    ![b].file_infos = vec_push(@, file_info)]
                /\ target' = target
    /\ UNCHANGED <<lay, rdr, overflow_checks, rnd, cdc>>

\* writer.seek(SeekFrom::Start(0))
SeekStart(b) ==
    /\ bs[b].pc = "seek_start"
    /\ LET f == FlushBuf(bs[b].writer, target.bytes)
       IN  /\ target' = [target EXCEPT !.bytes = f.bytes]
           /\ bs' = [bs EXCEPT ![b].pc = "encode_header", ![b].writer = [f.w EXCEPT !.pos = 0]]
    /\ UNCHANGED <<lay, rdr, overflow_checks, rnd, cdc>>

EncodeHeader(b) ==
    /\ bs[b].pc = "encode_header"
    /\ LET header == [version |-> 1, file_info |-> bs[b].file_infos]
           w == BufWrite(bs[b].writer, target.bytes, BlockHeader_encode(header).val)
       IN  /\ target' = [target EXCEPT !.bytes = w.bytes]
           /\ bs' = [bs EXCEPT ![b].pc = "flush", ![b].writer = w.w]
    /\ UNCHANGED <<lay, rdr, overflow_checks, rnd, cdc>>

Flush(b) ==
    /\ bs[b].pc = "flush"
    /\ LET f == FlushBuf(bs[b].writer, target.bytes)
       IN  /\ target' = [target EXCEPT !.bytes = f.bytes]
           /\ bs' = [bs EXCEPT ![b].pc = "open", ![b].writer = f.w]
    /\ UNCHANGED <<lay, rdr, overflow_checks, rnd, cdc>>

\* Self::open(block_path)
Open(b) ==
    /\ bs[b].pc = "open"
    /\ LET opened == Block_open(target)
       IN  bs' = [bs EXCEPT ![b] =
                IF opened.ok THEN [Returned(@, "done", "") EXCEPT !.block = opened]
                ELSE Returned(@, "failed", opened.err)]
    /\ UNCHANGED <<lay, rdr, overflow_checks, target, rnd, cdc>>

\* the `?` of a system call that fails: set_len, seek, File::open or read of a
\* source, metadata, write, flush
IoFailPcs == {"set_len", "seek_end", "read", "write_content", "file_info", "seek_start", "flush"}

IoFail(b) ==
    /\ bs[b].pc \in IoFailPcs
    /\ \E flushed \in BOOLEAN : Fail(b, "Io", flushed)
    /\ UNCHANGED <<lay, rdr, overflow_checks, rnd, cdc>>

(***************************************************************************)
(* Block::from_files: the offsets of members given by their size           *)
(***************************************************************************)
MaxMembers == 3

\* a source file by its length (u64) and the byte length of its location
Member(len, location_len) == [len |-> len, location_len |-> location_len]

\* lengths from empty to just above the 32-bit range
MemberLens ==
    {U64(U32Zero, U32Zero), U64(U32Zero, as_u32(5)), U64(U32Zero, as_u32(BigLen)),
     U64(U32Zero, U32(W16 - 1, W16 - 2 * BLOCK_PAGE_SIZE)),
     U64(U32Zero, U32(W16 - 1, W16 - BLOCK_PAGE_SIZE)),
     U64(U32Zero, U32Top),
     U64(as_u32(1), as_u32(5))}

Members == {Member(len, Len(<<47, 97>>)) : len \in MemberLens}

MemberLists == UNION {[1 .. n -> Members] : n \in 1 .. MaxMembers}

\* the bytes io::copy moves out of memory_buffer: the source's bytes written
\* over the one initial byte of Cursor::new(vec![0u8])
copied_len(member) ==
    IF member.len = U64(U32Zero, U32Zero) THEN U64(U32Zero, as_u32(1)) ELSE member.len

\* `bytes_written as u32`: the low 32 bits of sub-header length + copied bytes
bytes_written_as_u32(member) ==
    U32Add(as_u32(DigestLen + 2 + member.location_len), copied_len(member).lo).val

\* `next_file_offset + bytes_written as u32`, then round_up_to
advance(next_file_offset, member) ==
    LET sum == U32Add(next_file_offset, bytes_written_as_u32(member))
    IN  IF overflow_checks /\ sum.overflow THEN Panic
        ELSE round_up_to(sum.val, as_u32(BLOCK_PAGE_SIZE))

LayIdle ==
    [pc |-> "idle", files |-> <<>>, idx |-> 1, next_file_offset |-> U32Zero, file_infos |-> <<>>]

LayStart ==
    /\ lay.pc = "start"
    /\ LET first == round_up_to(header_size(lay.files), as_u32(BLOCK_PAGE_SIZE))
       IN  lay' = [lay EXCEPT !.pc = "loop", !.next_file_offset = first.val]
    /\ UNCHANGED <<rdr, overflow_checks, target, bs, rnd, cdc>>

\* one pass of the loop body: the entry gets the running offset, which then advances
LayMember ==
    /\ lay.pc = "loop"
    /\ lay.idx <= Len(lay.files)
    /\ LET file == lay.files[lay.idx]
           file_info == [size |-> file.len.lo, offset |-> lay.next_file_offset]
           next == advance(lay.next_file_offset, file)
       IN  lay' = IF next.panic
                  THEN [lay EXCEPT !.pc = "panicked"]
                  ELSE [lay EXCEPT !.idx = @ + 1,
                                   !.next_file_offset = next.val,
                                   !.file_infos = vec_push(@, file_info)]
    /\ UNCHANGED <<rdr, overflow_checks, target, bs, rnd, cdc>>

\* the loop is over: the header is written with the entries collected
LayFinish ==
    /\ lay.pc = "loop"
    /\ lay.idx > Len(lay.files)
    /\ lay' = [lay EXCEPT !.pc = "done"]
    /\ UNCHANGED <<rdr, overflow_checks, target, bs, rnd, cdc>>

(***************************************************************************)
(* Block::open and Block::file_at on files that were not built here        *)
(***************************************************************************)
MaxEntries == 2

Hello == <<72, 101, 108, 108, 111>>

\* what is stored at the first page boundary: a member, a member whose
\* location is not UTF-8, and a sub-header cut off inside its hash
GoodMember == FileHeader_encode([hash |-> md5(Hello), location |-> <<47, 97>>]).val \o Hello
BadUtf8Member == md5(Hello) \o u16_le(2) \o <<W8 - 1, 97>> \o Hello
CutMember == SubSeq(GoodMember, 1, DigestLen - 6)
MemberBodies == {GoodMember, BadUtf8Member, CutMember}

\* entries pointing at the page boundary, at the end of the file, past it, and
\* at the top of the 32-bit range; sizes that fit the member and that do not
EntryOffsets(file_len) ==
    {as_u32(BLOCK_PAGE_SIZE), as_u32(file_len), as_u32(file_len + 1), U32Top}

EntrySizes == {as_u32(Len(Hello)), as_u32(Len(Hello) + 1)}

Entry(k, offset, size) ==
    [id |-> U64(U32Zero, as_u32(k)), size |-> size, offset |-> offset,
     location_hash |-> md5(<<47, 97>>)]

EntryLists(file_len) ==
    UNION {[1 .. n -> EntryOffsets(file_len) \X EntrySizes] : n \in 1 .. MaxEntries}

\* a file: the encoded header, zeros up to the page boundary, the body
FileOf(pairs, body) ==
    LET header == [version |-> 1,
                   file_info |-> [k \in 1 .. Len(pairs) |-> Entry(k, pairs[k][1], pairs[k][2])]]
    IN  WriteAt(Padded(BlockHeader_encode(header).val, BLOCK_PAGE_SIZE), BLOCK_PAGE_SIZE, body)

ReaderFiles ==
    {FileOf(pairs, body) :
        pairs \in EntryLists(BLOCK_PAGE_SIZE + Len(GoodMember)), body \in {GoodMember, BadUtf8Member}}
    \cup {FileOf(pairs, CutMember) : pairs \in EntryLists(BLOCK_PAGE_SIZE + Len(CutMember))}
    \cup {<<>>, SubSeq(FileOf(<< <<as_u32(BLOCK_PAGE_SIZE), as_u32(Len(Hello))>> >>, GoodMember), 1, FileInfoSize)}

RdrIdle == [pc |-> "idle", block |-> Err("none"), idx |-> 0, out |-> [kind |-> "none"]]

\* Block::open(path)
RdrOpen ==
    /\ rdr.pc = "start"
    /\ LET block == Block_open(target)
       IN  rdr' = [rdr EXCEPT !.pc = IF block.ok THEN "opened" ELSE "rejected", !.block = block]
    /\ UNCHANGED <<lay, overflow_checks, target, bs, rnd, cdc>>

\* block.file_at(idx) for an index below len(); a panic ends the caller
RdrFileAt ==
    /\ rdr.pc \in {"opened", "called"}
    /\ \E idx \in 0 .. Block_len(rdr.block.val) - 1 :
        LET out == Block_file_at(rdr.block.val, target.bytes, idx)
        IN  rdr' = [rdr EXCEPT !.pc = IF out.kind = "panic" THEN "panicked" ELSE "called",
                               !.idx = idx,
                               !.out = out]
    /\ UNCHANGED <<lay, overflow_checks, target, bs, rnd, cdc>>

Init ==
    /\ overflow_checks \in BOOLEAN
    /\ target \in {NoFile, ForeignFile}
    /\ bs \in {f \in [Builders -> {NewBuilder(r) : r \in 1 .. Len(ReqLists)}] :
                    \A b \in Builders : b > 1 => f[b].req \in ContenderLists}
    /\ rnd = RndIdle
    /\ cdc = CdcIdle
    /\ lay = LayIdle
    /\ rdr = RdrIdle

Next ==
    \E b \in Builders :
        \/ Validate(b)
        \/ Create(b)
        \/ SetLength(b)
        \/ SeekEnd(b)
        \/ ReadSource(b)
        \/ WriteFileHeader(b)
        \/ WriteContent(b)
        \/ PushFileInfo(b)
        \/ SeekStart(b)
        \/ EncodeHeader(b)
        \/ Flush(b)
        \/ Open(b)
        \/ IoFail(b)

Spec == Init /\ [][Next]_vars

InitRound ==
    /\ overflow_checks \in BOOLEAN
    /\ target = NoFile
    /\ bs = [b \in Builders |-> NewBuilder(1)]
    /\ rnd \in {[RndIdle EXCEPT !.pc = "ready", !.value = v, !.base = base] :
                    v \in RoundValues, base \in RoundBases}
    /\ cdc = CdcIdle
    /\ lay = LayIdle
    /\ rdr = RdrIdle

NextRound == RoundUp

SpecRound == InitRound /\ [][NextRound]_vars

InitCodec ==
    /\ overflow_checks = FALSE
    /\ target = NoFile
    /\ bs = [b \in Builders |-> NewBuilder(1)]
    /\ rnd = RndIdle
    /\ cdc \in {CdcReady("FileInfo", v) : v \in FileInfos}
                \cup {CdcReady("BlockHeader", v) : v \in BlockHeaders}
                \cup {CdcReady("FileHeader", v) : v \in FileHeaders}
    /\ lay = LayIdle
    /\ rdr = RdrIdle

NextCodec ==
    \/ EncodeFileInfo
    \/ EncodeBlockHeader
    \/ EncodeFileHeader
    \/ DecodeFileInfo
    \/ DecodeBlockHeader
    \/ DecodeFileHeader

SpecCodec == InitCodec /\ [][NextCodec]_vars

InitLayout ==
    /\ overflow_checks \in BOOLEAN
    /\ target = NoFile
    /\ bs = [b \in Builders |-> NewBuilder(1)]
    /\ rnd = RndIdle
    /\ cdc = CdcIdle
    /\ lay \in {[LayIdle EXCEPT !.pc = "start", !.files = files] : files \in MemberLists}
    /\ rdr = RdrIdle

NextLayout ==
    \/ LayStart
    \/ LayMember
    \/ LayFinish

SpecLayout == InitLayout /\ [][NextLayout]_vars

InitReader ==
    /\ overflow_checks = FALSE
    /\ target \in {[exists |-> TRUE, bytes |-> bytes] : bytes \in ReaderFiles}
    /\ bs = [b \in Builders |-> NewBuilder(1)]
    /\ rnd = RndIdle
    /\ cdc = CdcIdle
    /\ lay = LayIdle
    /\ rdr = [RdrIdle EXCEPT !.pc = "start"]

NextReader ==
    \/ RdrOpen
    \/ RdrFileAt

SpecReader == InitReader /\ [][NextReader]_vars

(***************************************************************************)
(* Properties                                                              *)
(***************************************************************************)
Creators == {b \in Builders : bs[b].created}

\* the requests are non-empty and every source path is a file
ValidRequests(b) == files_of(b) # <<>> /\ first_missing_file(files_of(b)) = 0

PastCreate(b) == ValidRequests(b) /\ bs[b].pc \notin {"start", "create"}

Succeeded(b) == bs[b].pc = "done"

\* a step of builder b
StepOf(b) == bs'[b] # bs[b]

\* version + entry_count + n entries of 32 bytes, rounded up to the page size
HeaderRegion(n) ==
    ((2 + 4 + FileInfoSize * n + BLOCK_PAGE_SIZE - 1) \div BLOCK_PAGE_SIZE) * BLOCK_PAGE_SIZE

\* C1: a call that returns an error, for a target that did not exist before it
\* and that no other builder created, leaves no file at the target that
\* Block::open accepts.
C1_FailedBuildLeavesNoBlock ==
    \A b \in Builders :
        (/\ bs[b].pc = "failed"
         /\ ~bs[b].pre_exists
         /\ \A c \in Builders \ {b} : ~bs[c].created)
            => ~Block_open(target).ok

\* C2: of the builders racing on one target at most one passes the exclusive
\* create, and exactly one once any has tried on a target that was absent;
\* every other one that tried has failed with BlockFileAlreadyExists, and no
\* step of a builder that did not pass the create changes the file.
C2_OneCreator ==
    /\ Cardinality(Creators) <= 1
    /\ (\E b \in Builders : PastCreate(b)) /\ target # ForeignFile
            => Cardinality(Creators) = 1
    /\ \A b \in Builders :
            PastCreate(b) /\ ~bs[b].created
                => bs[b].pc = "failed" /\ bs[b].err = "BlockFileAlreadyExists"

C2_LosersWriteNothing ==
    \A b \in Builders : StepOf(b) /\ ~bs'[b].created => target' = target

C2_ExclusiveCreate == [](C2_OneCreator) /\ [][C2_LosersWriteNothing]_vars

C2_Witness ==
    \E b, c \in Builders :
        /\ b # c /\ ValidRequests(b) /\ ValidRequests(c)
        /\ bs[b].created /\ bs[b].pc \notin {"failed", "panicked"}
        /\ ~bs[c].pre_exists /\ bs[c].err = "BlockFileAlreadyExists"

\* C3: after a successful build, Block::open of the target yields as many
\* entries as requests, in request order, entry i with the id of request i,
\* the byte length of its source file and the MD5 of its location.
C3_EntriesMatchRequests ==
    \A b \in Builders :
        Succeeded(b) =>
            LET block == Block_open(target)
                files == files_of(b)
            IN  /\ block.ok
                /\ bs[b].block = block
                /\ Block_len(block.val) = Len(files)
                /\ \A i \in 1 .. Len(files) :
                    LET info == Block_iter(block.val)[i]
                    IN  /\ info.id = files[i].id
                        /\ info.size.hi = 0
                        /\ info.size.lo = Len(SourceFiles[files[i].path])
                        /\ info.location_hash = md5(files[i].location)

C3_Witness ==
    \E b \in Builders :
        /\ Succeeded(b) /\ Len(files_of(b)) = 2
        /\ Block_len(Block_open(target).val) = 2
        /\ Block_iter(Block_open(target).val)[1].id = U64(U32Zero, as_u32(5))

\* C4: after a successful build, file_at(i) returns, for every member i, the
\* content of source file i and a FileHeader with the location of request i.
C4_ContentMatchesSources ==
    \A b \in Builders :
        Succeeded(b) =>
            LET block == Block_open(target)
                files == files_of(b)
            IN  /\ block.ok
                /\ \A i \in 1 .. Len(files) :
                    LET got == Block_file_at(block.val, target.bytes, i - 1)
                    IN  /\ got.kind = "ok"
                        /\ got.content = SourceFiles[files[i].path]
                        /\ got.header.location = files[i].location

C4_Witness ==
    \E b \in Builders :
        /\ Succeeded(b) /\ Len(files_of(b)) = 2
        /\ Len(SourceFiles[files_of(b)[1].path]) > 2 * BLOCK_PAGE_SIZE
        /\ Block_file_at(Block_open(target).val, target.bytes, 0).content = SourceFiles.big
        /\ Block_file_at(Block_open(target).val, target.bytes, 1).kind = "ok"

\* C5: after a successful build, for every member i the content file_at(i)
\* returns has the length FileInfo[i].size, and its MD5 is the hash of the
\* FileHeader returned with it.
C5_ContentHashMatches ==
    \A b \in Builders :
        Succeeded(b) =>
            LET block == Block_open(target)
            IN  /\ block.ok
                /\ \A i \in 1 .. Block_len(block.val) :
                    LET got == Block_file_at(block.val, target.bytes, i - 1)
                    IN  /\ got.kind = "ok"
                        /\ Len(got.content) = as_usize(Block_iter(block.val)[i].size)
                        /\ md5(got.content) = got.header.hash

\* C6: a builder with valid requests that reaches the create while a file is
\* at the target fails there with BlockFileAlreadyExists, and no step of a
\* builder that has not created the target changes a file that is there.
C6_ExistingTargetStep ==
    \A b \in Builders :
        StepOf(b) /\ target.exists /\ ~bs[b].created =>
            /\ target' = target
            /\ ~bs'[b].created
            /\ bs[b].pc = "create" =>
                    bs'[b].pc = "failed" /\ bs'[b].err = "BlockFileAlreadyExists"

C6_ExistingTargetUnchanged == [][C6_ExistingTargetStep]_vars

C6_Witness ==
    \E b, c \in Builders :
        /\ Succeeded(c)
        /\ ValidRequests(b) /\ bs[b].pre_exists /\ bs[b].err = "BlockFileAlreadyExists"
        /\ Block_open(target) = bs[c].block

\* C7: an empty request list fails with NoFilesInBlock and a list with a
\* missing source with NotFound for the first missing path, whether or not the
\* target exists; such a call never creates the target, and validation never
\* touches it.
C7_Validated ==
    /\ \A b \in Builders :
        bs[b].pc # "start" /\ files_of(b) = <<>>
            => bs[b].pc = "failed" /\ bs[b].err = "NoFilesInBlock" /\ ~bs[b].created
    /\ \A b \in Builders :
        \A i \in 1 .. Len(files_of(b)) :
            (/\ bs[b].pc # "start"
             /\ ~is_file(files_of(b)[i].path)
             /\ \A j \in 1 .. i - 1 : is_file(files_of(b)[j].path))
                => /\ bs[b].pc = "failed" /\ bs[b].err = "NotFound"
                   /\ bs[b].err_path = files_of(b)[i].path
                   /\ ~bs[b].created
    /\ target.exists => target = ForeignFile \/ Creators # {}

C7_ValidationStep ==
    \A b \in Builders :
        StepOf(b) /\ (bs[b].pc = "start" \/ ~ValidRequests(b)) => target' = target

C7_ValidationFirst == [](C7_Validated) /\ [][C7_ValidationStep]_vars

C7_Witness ==
    \E b, c \in Builders :
        /\ bs[c].created /\ target.exists
        /\ bs[b].pre_exists /\ bs[b].err = "NotFound" /\ bs[b].err_path = "missing"

\* C8: for every value v and base b > 0, round_up_to(v, b) returns r with
\* r >= v, r % b = 0, r - v < b, and r = v when v % b = 0.
C8_RoundUpContract ==
    rnd.pc = "done" /\ rnd.base # U32Zero =>
        /\ ~rnd.out.panic
        /\ U32Le(rnd.value, rnd.out.val)
        /\ U32Rem(rnd.out.val, rnd.base) = U32Zero
        /\ U32Lt(U32Sub(rnd.out.val, rnd.value).val, rnd.base)
        /\ U32Rem(rnd.value, rnd.base) = U32Zero => rnd.out.val = rnd.value

\* C9: encoding a FileInfo or a BlockHeader succeeds, encoding a FileHeader
\* succeeds unless its location is longer than 65535 bytes, and decoding the
\* encoded bytes, whatever follows them, yields the value that was encoded.
C9_RoundTrip ==
    /\ cdc.pc = "encoded" =>
            (cdc.enc.ok <=> ~(cdc.kind = "FileHeader" /\ Len(cdc.input.location) > U16Max))
    /\ cdc.pc = "decoded" => cdc.dec.ok /\ cdc.dec.val = cdc.input

C9_Witness ==
    /\ cdc.pc = "decoded" /\ cdc.kind = "BlockHeader"
    /\ Len(cdc.input.file_info) = 3 /\ cdc.input.version = 258
    /\ cdc.dec = Ok(cdc.input)

C11_OffsetsIncrease ==
    lay.pc = "done" =>
        \A i \in 1 .. Len(lay.file_infos) - 1 :
            U32Lt(lay.file_infos[i].offset, lay.file_infos[i + 1].offset)

\* C12: on a file that Block::open accepted, file_at of an index below len()
\* returns Ok or an error of kind HeaderCorrupted; it never panics.
C12_FileAtNeverPanics ==
    rdr.pc \in {"called", "panicked"} => rdr.out.kind \in {"ok", "HeaderCorrupted"}

====
